---- MODULE Spec2Model ----
(***************************************************************************)
(* Peroxide: the construction utilities of src/util/non_macro.rs (seq,     *)
(* zeros, eye, linspace, logspace, cbind, rbind, rand) over the Matrix     *)
(* type (flat data, row, col, Shape tag).                                  *)
(*                                                                         *)
(* An f64 is modelled as an exact rational <<n, d>> in lowest terms with   *)
(* d > 0: the arithmetic of the model is the arithmetic of the code on     *)
(* every input for which the f64 operations are exact (all the integer     *)
(* and half-integer inputs drawn here, up to the quotients of linspace).   *)
(***************************************************************************)
EXTENDS Integers, Sequences, FiniteSets

VARIABLES m, m0, nconv, out

vars == <<m, m0, nconv, out>>

-----------------------------------------------------------------------------
(* Bounds of the model *)

\* largest row / column count of an operand matrix
MaxDim == 3
\* how many change_shape calls are applied to one matrix
MaxConv == 2
\* largest n of eye / eye_shape
MaxEye == 3
\* largest r and c of rand
MaxRand == 2
\* largest start / end of seq, linspace, logspace
MaxVal == 3
\* largest step of seq
MaxStep == 2
\* largest length of linspace / logspace
MaxLen == 5
\* largest base of logspace
MaxBase == 3

-----------------------------------------------------------------------------
(* f64 values as exact rationals *)

Abs(x) == IF x < 0 THEN -x ELSE x

RECURSIVE GCD(_, _)
GCD(a, b) == IF b = 0 THEN a ELSE GCD(b, a % b)

\* the rational n/d in lowest terms, d > 0
Frac(n, d) ==
    LET g == GCD(Abs(n), Abs(d))
        s == IF d < 0 THEN -1 ELSE 1
    IN  <<(s * n) \div g, (s * d) \div g>>

\* `x.into()` / `i as f64` of an integer
F64(n) == <<n, 1>>

Zero == F64(0)
One == F64(1)

Add(a, b) == Frac(a[1] * b[2] + b[1] * a[2], a[2] * b[2])
Sub(a, b) == Frac(a[1] * b[2] - b[1] * a[2], a[2] * b[2])
Mul(a, b) == Frac(a[1] * b[1], a[2] * b[2])
\* b # 0
Div(a, b) == Frac(a[1] * b[2], a[2] * b[1])
Leq(a, b) == a[1] * b[2] <= b[1] * a[2]
Lt(a, b) == a[1] * b[2] < b[1] * a[2]
\* f64::floor
Floor(a) == a[1] \div a[2]
IsInt(a) == a[2] = 1

-----------------------------------------------------------------------------
(* Shape and Matrix *)

Row == "Row"
Col == "Col"
Shape == {Row, Col}

\* matrix(v, r, c, shape): direct assembly
matrix(v, r, c, shape) == [data |-> v, row |-> r, col |-> c, shape |-> shape]

\* physical offset (0-based) of logical (i, j)
Offset(shape, r, c, i, j) == IF shape = Row THEN i * c + j ELSE j * r + i

\* M[(i, j)], for 0 <= i < row and 0 <= j < col
At(M, i, j) == M.data[Offset(M.shape, M.row, M.col, i, j) + 1]

\* M[(i, j)] = x
SetAt(M, i, j, x) ==
    [M EXCEPT !.data[Offset(M.shape, M.row, M.col, i, j) + 1] = x]

\* the Shape tag is flipped and the data left in the old order
change_shape_tag_only(M) ==
    matrix(M.data, M.row, M.col, IF M.shape = Row THEN Col ELSE Row)

\* change_shape: same logical content, opposite Shape
change_shape(M) ==
    LET r == M.row
        c == M.col
        target == IF M.shape = Row THEN Col ELSE Row
        i(off) == IF target = Col THEN off % r ELSE off \div c
        j(off) == IF target = Col THEN off \div r ELSE off % c
    IN  matrix([k \in 1..Len(M.data) |->
                   M.data[Offset(M.shape, r, c, i(k - 1), j(k - 1)) + 1]],
               r, c, target)

-----------------------------------------------------------------------------
(* Results of a call: a value, or a panic *)

Ok(v) == [panicked |-> FALSE, val |-> v]
Panic(why) == [panicked |-> TRUE, val |-> why]

-----------------------------------------------------------------------------
(* cbind, rbind *)

\* `c += temp2.col` is left out
cbind_col_not_summed(m1, m2) ==
    LET temp == IF m1.shape # Col THEN change_shape(m1) ELSE m1
        temp2 == IF m2.shape # Col THEN change_shape(m2) ELSE m2
    IN  IF temp.row # temp2.row
        THEN Panic("assert_eq")
        ELSE Ok(matrix(temp.data \o temp2.data, temp.row, temp.col, Col))

cbind(m1, m2) ==
    LET temp == IF m1.shape # Col THEN change_shape(m1) ELSE m1
        temp2 == IF m2.shape # Col THEN change_shape(m2) ELSE m2
        v == temp.data
        c == temp.col
        r == temp.row
    IN  IF r # temp2.row
        THEN Panic("assert_eq")
        ELSE Ok(matrix(v \o temp2.data, r, c + temp2.col, Col))

\* the second operand is appended without being normalized to Row
rbind_second_not_normalized(m1, m2) ==
    LET temp == IF m1.shape # Row THEN change_shape(m1) ELSE m1
    IN  IF temp.col # m2.col
        THEN Panic("assert_eq")
        ELSE Ok(matrix(temp.data \o m2.data, temp.row + m2.row, temp.col, Row))

\* the assertion compares the row counts, as cbind's does
rbind_asserts_rows(m1, m2) ==
    LET temp == IF m1.shape # Row THEN change_shape(m1) ELSE m1
        temp2 == IF m2.shape # Row THEN change_shape(m2) ELSE m2
    IN  IF temp.row # temp2.row
        THEN Panic("assert_eq")
        ELSE Ok(matrix(temp.data \o temp2.data, temp.row + temp2.row, temp.col, Row))

rbind(m1, m2) ==
    LET temp == IF m1.shape # Row THEN change_shape(m1) ELSE m1
        temp2 == IF m2.shape # Row THEN change_shape(m2) ELSE m2
        v == temp.data
        c == temp.col
        r == temp.row
    IN  IF c # temp2.col
        THEN Panic("assert_eq")
        ELSE Ok(matrix(v \o temp2.data, r + temp2.row, c, Row))

-----------------------------------------------------------------------------
(* Operand matrices: matrix!(base+1; base+r*c; 1, r, c, shape) *)

Operand(base, r, c, shape) ==
    matrix([k \in 1..(r * c) |-> F64(base + k)], r, c, shape)

Operands(base) ==
    {Operand(base, r, c, s) : r \in 0..MaxDim, c \in 0..MaxDim, s \in Shape}

\* the data of the second operand are distinct from the first's
Base2 == MaxDim * MaxDim

NoCall == [op |-> "none"]

-----------------------------------------------------------------------------
(* seq *)

\* `x as usize` of a non-NaN float: saturating at 0
AsUsize(x) == IF x < 0 THEN 0 ELSE x

\* the `+ 1` of the length is left out
seq_length_without_one(start, end, step) ==
    IF ~Leq(start, end)
    THEN Panic("assert")
    ELSE Ok([i \in 1..AsUsize(Floor(Div(Sub(end, start), step))) |->
                Add(start, Mul(step, F64(i - 1)))])

\* step # 0, so that the quotient is finite
seq(start, end, step) ==
    LET s == start
        e == end
    IN  IF ~Leq(s, e)
        THEN Panic("assert")
        ELSE LET factor == Div(Sub(e, s), step)
                 l == AsUsize(Floor(factor)) + 1
             IN  Ok([i \in 1..l |-> Add(s, Mul(step, F64(i - 1)))])

-----------------------------------------------------------------------------
(* zeros, eye *)

zeros(r, c) == matrix([k \in 1..(r * c) |-> Zero], r, c, Row)

zeros_shape(r, c, shape) == matrix([k \in 1..(r * c) |-> Zero], r, c, shape)

\* for i in from..n-1 { M[(i, i)] = 1 }
RECURSIVE SetDiagonal(_, _, _)
SetDiagonal(M, from, n) ==
    IF from >= n THEN M ELSE SetDiagonal(SetAt(M, from, from, One), from + 1, n)

eye(n) == SetDiagonal(zeros(n, n), 0, n)

\* the loop starts at 1
eye_shape_from_one(n, shape) == SetDiagonal(zeros_shape(n, n, shape), 1, n)

eye_shape(n, shape) == SetDiagonal(zeros_shape(n, n, shape), 0, n)

-----------------------------------------------------------------------------
(* linspace *)

\* v[0] = start is written after v[length - 1] = end
linspace_start_written_last(start, end, length) ==
    IF length = 0
    THEN Panic("index out of bounds")
    ELSE LET step == IF length > 1
                     THEN Div(Sub(end, start), Sub(F64(length), One))
                     ELSE Zero
         IN  Ok([i \in 1..length |->
                    IF i = 1 THEN start
                    ELSE IF i = length THEN end
                    ELSE Add(start, Mul(step, F64(i - 1)))])

\* the step is (end - start) / length
linspace_step_by_length(start, end, length) ==
    IF length = 0
    THEN Panic("index out of bounds")
    ELSE LET step == Div(Sub(end, start), F64(length))
         IN  Ok([i \in 1..length |->
                    IF i = length THEN end
                    ELSE IF i = 1 THEN start
                    ELSE Add(start, Mul(step, F64(i - 1)))])

linspace(start, end, length) ==
    IF length = 0
    THEN Panic("index out of bounds")
    ELSE LET step == IF length > 1
                     THEN Div(Sub(end, start), Sub(F64(length), One))
                     ELSE Zero
             v0 == [i \in 1..length |-> Zero]
             v1 == [v0 EXCEPT ![1] = start]
             v2 == [v1 EXCEPT ![length] = end]
         IN  Ok([i \in 1..length |->
                    IF i \in 2..(length - 1)
                    THEN Add(v2[1], Mul(step, F64(i - 1)))
                    ELSE v2[i]])

-----------------------------------------------------------------------------
(* logspace *)

\* b^k for an integer k >= 0
RECURSIVE IPow(_, _)
IPow(b, k) == IF k = 0 THEN One ELSE Mul(b, IPow(b, k - 1))

\* b.powf(x) for b > 0, as the power [base, exp]: an integer exponent is
\* evaluated (exp = 1), any other is kept
powf(b, x) ==
    IF x = Zero \/ b = One THEN [base |-> One, exp |-> One]
    ELSE IF IsInt(x) /\ x[1] > 0 THEN [base |-> IPow(b, x[1]), exp |-> One]
    ELSE IF IsInt(x) THEN [base |-> IPow(Div(One, b), -x[1]), exp |-> One]
    ELSE [base |-> b, exp |-> x]

\* the step is (e - s) / length
logspace_step_by_length(start, end, length, base) ==
    IF ~Leq(start, end)
    THEN Panic("assert")
    ELSE LET step == IF length > 1 THEN Div(Sub(end, start), F64(length)) ELSE Zero
         IN  Ok([i \in 1..length |->
                    powf(base, Add(start, Mul(step, F64(i - 1))))])

logspace(start, end, length, base) ==
    LET s == start
        e == end
        b == base
    IN  IF ~Leq(s, e)
        THEN Panic("assert")
        ELSE LET step == IF length > 1
                         THEN Div(Sub(e, s), Sub(F64(length), One))
                         ELSE Zero
             IN  Ok([i \in 1..length |-> powf(b, Add(s, Mul(step, F64(i - 1))))])

-----------------------------------------------------------------------------
(* rand *)

\* the values a draw is taken from: the multiples of 1/2 in [-1, 2]
Samples == {Frac(k, 2) : k \in -2..4}

\* a wider range is sampled
gen_range_wide(low, high) == {x \in Samples : Leq(Sub(low, One), x) /\ Leq(x, high)}

\* rng.gen_range(low..=high): any value of the closed interval
gen_range(low, high) == {x \in Samples : Leq(low, x) /\ Leq(x, high)}

\* for i in 0..r { for j in 0..c { M[(i, j)] = draws[next] } }, k = i * c + j
RECURSIVE Fill(_, _, _)
Fill(M, k, draws) ==
    IF k >= M.row * M.col
    THEN M
    ELSE Fill(SetAt(M, k \div M.col, k % M.col, draws[k + 1]), k + 1, draws)

\* draws: the values the generator returns, in the order of the calls
rand(r, c, draws) == Fill(zeros(r, c), 0, draws)

-----------------------------------------------------------------------------
(* The specification of the sequence and construction utilities *)

\* the multiples of 1/2 in [-1, MaxVal]
Values == {Frac(k, 2) : k \in -2..(2 * MaxVal)}

\* the non-zero multiples of 1/2 in [-1/2, MaxStep]
Steps == {Frac(k, 2) : k \in -1..(2 * MaxStep)} \ {Zero}

Bases == {F64(k) : k \in 1..MaxBase}

InitUtil ==
    /\ m = zeros(0, 0)
    /\ m0 = m
    /\ nconv = 0
    /\ out = NoCall

\* each behaviour is one call of one utility: they are pure functions and
\* share no state
CallSeq ==
    /\ out = NoCall
    /\ \E start \in Values, end \in Values, step \in Steps :
        /\ out' = [op |-> "seq", start |-> start, end |-> end, step |-> step,
                   res |-> seq(start, end, step)]
        /\ UNCHANGED <<m, m0, nconv>>

CallEye ==
    /\ out = NoCall
    /\ \E n \in 0..MaxEye :
        /\ out' = [op |-> "eye", n |-> n, shape |-> Row, res |-> Ok(eye(n))]
        /\ UNCHANGED <<m, m0, nconv>>

CallEyeShape ==
    /\ out = NoCall
    /\ \E n \in 0..MaxEye, shape \in Shape :
        /\ out' = [op |-> "eye_shape", n |-> n, shape |-> shape,
                   res |-> Ok(eye_shape(n, shape))]
        /\ UNCHANGED <<m, m0, nconv>>

CallLinspace ==
    /\ out = NoCall
    /\ \E start \in Values, end \in Values, length \in 0..MaxLen :
        /\ out' = [op |-> "linspace", start |-> start, end |-> end,
                   length |-> length, res |-> linspace(start, end, length)]
        /\ UNCHANGED <<m, m0, nconv>>

CallLogspace ==
    /\ out = NoCall
    /\ \E start \in Values, end \in Values, length \in 0..MaxLen, base \in Bases :
        /\ out' = [op |-> "logspace", start |-> start, end |-> end,
                   length |-> length, base |-> base,
                   res |-> logspace(start, end, length, base)]
        /\ UNCHANGED <<m, m0, nconv>>

CallRand ==
    /\ out = NoCall
    /\ \E r \in 0..MaxRand, c \in 0..MaxRand :
        \E draws \in [1..(r * c) -> gen_range(Zero, One)] :
            /\ out' = [op |-> "rand", r |-> r, c |-> c,
                       res |-> Ok(rand(r, c, draws))]
            /\ UNCHANGED <<m, m0, nconv>>

NextUtil == CallSeq \/ CallEye \/ CallEyeShape \/ CallLinspace \/ CallLogspace \/ CallRand

SpecUtil == InitUtil /\ [][NextUtil]_vars

-----------------------------------------------------------------------------
(* The matrix specification *)

Init ==
    /\ m \in Operands(0)
    /\ m0 = m
    /\ nconv = 0
    /\ out = NoCall

ChangeShape ==
    /\ nconv < MaxConv
    /\ m' = change_shape(m)
    /\ nconv' = nconv + 1
    /\ UNCHANGED <<m0, out>>

Cbind ==
    \E b \in Operands(Base2) :
        /\ out' = [op |-> "cbind", a |-> m, b |-> b, res |-> cbind(m, b)]
        /\ UNCHANGED <<m, m0, nconv>>

Rbind ==
    \E b \in Operands(Base2) :
        /\ out' = [op |-> "rbind", a |-> m, b |-> b, res |-> rbind(m, b)]
        /\ UNCHANGED <<m, m0, nconv>>

Next == ChangeShape \/ Cbind \/ Rbind

Spec == Init /\ [][Next]_vars

-----------------------------------------------------------------------------
(* Properties of the matrix specification *)

Coords(M) == (0..(M.row - 1)) \X (0..(M.col - 1))

\* C1: change_shape is layout transparent: after one or two conversions every
\* valid (i, j) reads the value it read in the original matrix; a conversion
\* flips the Shape tag, and converting twice restores the original Shape tag
\* and the original physical data ordering.
LayoutTransparency ==
    /\ m.row = m0.row /\ m.col = m0.col
    /\ \A p \in Coords(m0) : At(m, p[1], p[2]) = At(m0, p[1], p[2])
    /\ nconv % 2 = 1 => m.shape # m0.shape
    /\ nconv % 2 = 0 => m = m0

\* a 2 x 3 matrix, whose two layouts differ, converted twice
LayoutTransparencyWitness ==
    /\ nconv = 2
    /\ m0.row = 2 /\ m0.col = 3
    /\ change_shape(m0).data # m0.data

\* C2: with equal row counts cbind returns a Col matrix of r rows and c1 + c2
\* columns, with equal column counts rbind returns a Row matrix of r1 + r2 rows
\* and c columns, whatever the Shapes of the operands; the data length of the
\* result is row * col.
BindDimensions ==
    /\ (out.op = "cbind" /\ out.a.row = out.b.row) =>
          /\ ~out.res.panicked
          /\ out.res.val.shape = Col
          /\ out.res.val.row = out.a.row
          /\ out.res.val.col = out.a.col + out.b.col
          /\ Len(out.res.val.data) = out.res.val.row * out.res.val.col
    /\ (out.op = "rbind" /\ out.a.col = out.b.col) =>
          /\ ~out.res.panicked
          /\ out.res.val.shape = Row
          /\ out.res.val.row = out.a.row + out.b.row
          /\ out.res.val.col = out.a.col
          /\ Len(out.res.val.data) = out.res.val.row * out.res.val.col

\* cbind of a Row 2 x 3 and a Col 2 x 1
BindDimensionsWitness ==
    /\ out.op = "cbind"
    /\ out.a.shape = Row /\ out.a.row = 2 /\ out.a.col = 3
    /\ out.b.shape = Col /\ out.b.row = 2 /\ out.b.col = 1
    /\ ~out.res.panicked

\* C3: cbind and rbind are logical block concatenation for all four
\* combinations of operand Shapes: C = cbind(A, B) reads A.at(i, j) for
\* j < c1 and B.at(i, j - c1) for c1 <= j; R = rbind(A, B) reads A.at(i, j)
\* for i < r1 and B.at(i - r1, j) for r1 <= i.
BlockConcatenation ==
    /\ (out.op = "cbind" /\ out.a.row = out.b.row) =>
          /\ ~out.res.panicked
          /\ \A i \in 0..(out.a.row - 1), j \in 0..(out.a.col + out.b.col - 1) :
                At(out.res.val, i, j) =
                    IF j < out.a.col THEN At(out.a, i, j)
                    ELSE At(out.b, i, j - out.a.col)
    /\ (out.op = "rbind" /\ out.a.col = out.b.col) =>
          /\ ~out.res.panicked
          /\ \A i \in 0..(out.a.row + out.b.row - 1), j \in 0..(out.a.col - 1) :
                At(out.res.val, i, j) =
                    IF i < out.a.row THEN At(out.a, i, j)
                    ELSE At(out.b, i - out.a.row, j)

\* rbind of two Col operands, 2 x 3 and 3 x 3, both of which are re-permuted
BlockConcatenationWitness ==
    /\ out.op = "rbind"
    /\ out.a.shape = Col /\ out.a.row = 2 /\ out.a.col = 3
    /\ out.b.shape = Col /\ out.b.row = 3 /\ out.b.col = 3
    /\ ~out.res.panicked

\* C4: cbind with unequal row counts and rbind with unequal column counts
\* fail (the assertion panics) for every combination of operand Shapes; no
\* Matrix is returned.
MismatchSurfaced ==
    /\ (out.op = "cbind" /\ out.a.row # out.b.row) => out.res.panicked
    /\ (out.op = "rbind" /\ out.a.col # out.b.col) => out.res.panicked

\* rbind of a Col 2 x 3 and a Row 2 x 2: the row counts agree, the column
\* counts do not
MismatchSurfacedWitness ==
    /\ out.op = "rbind"
    /\ out.a.shape = Col /\ out.a.row = 2 /\ out.a.col = 3
    /\ out.b.shape = Row /\ out.b.row = 2 /\ out.b.col = 2
    /\ out.res.panicked

-----------------------------------------------------------------------------
(* Properties of the utilities *)

\* C5: eye(n) and eye_shape(n, s) are n x n matrices with at(i, i) = 1 and
\* at(i, j) = 0 for i # j, for every n >= 0 and both Shapes; eye(n) is
\* RowMajor and eye_shape(n, s) has Shape s, and both read as eye(n) does.
IdentityConstruction ==
    out.op \in {"eye", "eye_shape"} =>
        LET I == out.res.val
            n == out.n
        IN  /\ ~out.res.panicked
            /\ I.row = n /\ I.col = n /\ Len(I.data) = n * n
            /\ I.shape = out.shape
            /\ \A i \in 0..(n - 1), j \in 0..(n - 1) :
                  /\ At(I, i, j) = IF i = j THEN One ELSE Zero
                  /\ At(I, i, j) = At(eye(n), i, j)

\* a 3 x 3 identity built in the Col Shape
IdentityConstructionWitness ==
    /\ out.op = "eye_shape"
    /\ out.n = 3
    /\ out.shape = Col
    /\ At(out.res.val, 0, 0) = One

InteriorLaw(start, end, length, v) ==
    \A i \in 1..(length - 2) :
        v[i + 1] = Add(start, Div(Mul(F64(i), Sub(end, start)), F64(length - 1)))

\* C7 as stated: for every length >= 1 linspace returns `length` values, the
\* first equal to start, the last equal to end, the interior element i equal
\* to start + i * (end - start) / (length - 1); for length 1 the single value
\* equals start.
LinspaceEndpointsAsStated ==
    (out.op = "linspace" /\ out.length >= 1) =>
        LET v == out.res.val
        IN  /\ ~out.res.panicked
            /\ Len(v) = out.length
            /\ v[1] = out.start
            /\ v[out.length] = out.end
            /\ InteriorLaw(out.start, out.end, out.length, v)
            /\ out.length = 1 => v = <<out.start>>

\* C7, amended: for every length >= 1 linspace returns `length` values, the
\* last equal to end, and for length >= 2 the first equal to start and the
\* interior element i equal to start + i * (end - start) / (length - 1); for
\* length 1 the single value equals end (the write of end overwrites start).
LinspaceEndpoints ==
    (out.op = "linspace" /\ out.length >= 1) =>
        LET v == out.res.val
        IN  /\ ~out.res.panicked
            /\ Len(v) = out.length
            /\ v[out.length] = out.end
            /\ out.length >= 2 => v[1] = out.start
            /\ InteriorLaw(out.start, out.end, out.length, v)
            /\ out.length = 1 => v = <<out.end>>

\* linspace(0, 3, 1) = [3]
LinspaceEndpointsWitness ==
    /\ out.op = "linspace"
    /\ out.start = F64(0) /\ out.end = F64(3) /\ out.length = 1
    /\ out.res = Ok(<<F64(3)>>)

\* C8: for integers s <= e, linspace(s, e, e - s + 1) equals seq(s, e, 1)
\* element for element, and both have length e - s + 1.
LinspaceAgreesWithSeq ==
    (/\ out.op = "linspace"
     /\ IsInt(out.start) /\ IsInt(out.end) /\ Leq(out.start, out.end)
     /\ out.length = out.end[1] - out.start[1] + 1) =>
        /\ ~out.res.panicked
        /\ out.res = seq(out.start, out.end, One)
        /\ Len(out.res.val) = out.length
        /\ Len(seq(out.start, out.end, One).val) = out.length

\* linspace(-1, 3, 5) = [-1, 0, 1, 2, 3]
LinspaceAgreesWithSeqWitness ==
    /\ out.op = "linspace"
    /\ out.start = F64(-1) /\ out.end = F64(3) /\ out.length = 5
    /\ out.res = Ok(<<F64(-1), F64(0), F64(1), F64(2), F64(3)>>)

RandIsRowMatrix ==
    /\ ~out.res.panicked
    /\ out.res.val.row = out.r /\ out.res.val.col = out.c
    /\ out.res.val.shape = Row
    /\ Len(out.res.val.data) = out.r * out.c

====
